---- MODULE Spec2Model ----
(***************************************************************************)
(* HomeActivity (src/src/model/homeactivity.py): the shell's record of one *)
(* running activity.  The record's fields are the variables; every method  *)
(* is an operator from the record (and its inputs) to an outcome: the      *)
(* record afterwards, the calls made on the bus and on the remote service, *)
(* the exception raised (if any) and the value returned.                   *)
(***************************************************************************)
EXTENDS Integers, Sequences, FiniteSets, TLC

VARIABLES _window, _service, _activity_id, _activity_info, _launch_time,
          _launching, receivers, fx, ret, before

fields == <<_window, _service, _activity_id, _activity_info, _launch_time,
            _launching>>
vars == <<_window, _service, _activity_id, _activity_info, _launch_time,
          _launching, receivers, fx, ret, before>>

----------------------------------------------------------------------------
(* Bounds of the model. *)

MaxIds == 2
MaxXid == 2
MaxActs == 2

----------------------------------------------------------------------------
(* Values. Python's None is the empty tuple; objects are records. *)

None == <<>>

_SERVICE_NAME == "org.laptop.Activity"
_SERVICE_PATH == "/org/laptop/Activity"
_SERVICE_INTERFACE == "org.laptop.Activity"

IdPool == <<"a", "b", "c", "d">>
ActivityIds == {""} \cup {IdPool[i] : i \in 1..MaxIds}
Windows == {[xid |-> x] : x \in 1..MaxXid}
ActivityInfos == {[icon |-> "activity-terminal.svg"]}
Times == {1000, 1001}
Colors == {"#FF0000,#00FF00", "#0000FF,#FFFF00"}
PresenceIds == {IdPool[1], "z"}
PresenceActivities == [id : PresenceIds, color : Colors]
BusNames == {_SERVICE_NAME \o IdPool[i] : i \in 1..MaxIds}
              \cup {_SERVICE_NAME, "org.freedesktop.Notifications"}
BusOwners == {"", ":1.42"}

RECURSIVE SeqsUpTo(_, _)
SeqsUpTo(S, n) ==
    IF n = 0 THEN {<<>>}
    ELSE LET shorter == SeqsUpTo(S, n - 1)
         IN shorter \cup {Append(s, x) : s \in {t \in shorter : Len(t) = n - 1}, x \in S}

(* Python truthiness of the values the code tests: a string, an object     *)
(* reference (None or an object) and an integer.                            *)
TruthyStr(s) == s # ""
TruthyObj(o) == o # None
TruthyInt(n) == n # 0

(* The outcome of a call: the record afterwards, the external calls made,   *)
(* the exception raised (None when it returns) and the value returned.      *)
Outcome(s, calls, exc, val) == [self |-> s, fx |-> calls, exc |-> exc, val |-> val]
Return(s, calls, val) == Outcome(s, calls, None, val)
Raise(s, calls, type, msg) == Outcome(s, calls, [type |-> type, msg |-> msg], None)

XoColor(color_string) == [xocolor |-> color_string]

----------------------------------------------------------------------------
(* The methods of HomeActivity. *)

Self == [_window |-> _window, _service |-> _service,
         _activity_id |-> _activity_id, _activity_info |-> _activity_info,
         _launch_time |-> _launch_time, _launching |-> _launching]

(* Faulty variant: the window is stored without the validity test. *)
set_window_unchecked(s, window) ==
    Return([s EXCEPT !._window = window], <<>>, None)

set_window(s, window) ==
    IF ~TruthyObj(window)
    THEN Raise(s, <<>>, "ValueError", "window must be valid")
    ELSE Return([s EXCEPT !._window = window], <<>>, None)

get_activity_id(s) == s._activity_id

get_xid(s) ==
    IF s._window = None
    THEN Raise(s, <<>>, "AttributeError", "'NoneType' object has no attribute 'get_xid'")
    ELSE Return(s, <<>>, s._window.xid)

(* The name is returned wrapped in a 1-tuple, None being the empty tuple. *)
_get_service_name(s) ==
    IF TruthyStr(s._activity_id)
    THEN <<_SERVICE_NAME \o s._activity_id>>
    ELSE None

(* found: whether bus.get_object finds the remote object (else it raises   *)
(* dbus.DBusException, which is caught). The call is logged with what it    *)
(* gave.                                                                    *)
_retrieve_service(s, found) ==
    IF ~TruthyStr(s._activity_id)
    THEN Return(s, <<>>, None)
    ELSE LET name == _get_service_name(s)[1]
             path == _SERVICE_PATH \o "/" \o s._activity_id
         IN IF found
            THEN Return([s EXCEPT !._service =
                             [bus_name |-> name, object_path |-> path,
                              dbus_interface |-> _SERVICE_INTERFACE]],
                        << <<"get_object", name, path, "proxy">> >>, None)
            ELSE Return([s EXCEPT !._service = None],
                        << <<"get_object", name, path, "DBusException">> >>, None)

(* Faulty variant: the remote call is issued whether or not a service is bound. *)
set_active_unguarded(s, state) ==
    Return(s, << <<"SetActive", state>> >>, None)

set_active(s, state) ==
    IF s._service # None
    THEN Return(s, << <<"SetActive", state>> >>, None)
    ELSE Return(s, <<>>, None)

(* Faulty variant: the handler does not filter on the name. *)
_name_owner_changed_cb_unfiltered(s, name, old, new, found) ==
    LET r == _retrieve_service(s, found)
        a == set_active(r.self, TRUE)
    IN Return(a.self, r.fx \o a.fx, None)

(* Faulty variant: the handler resolves only while no service is bound. *)
_name_owner_changed_cb_once(s, name, old, new, found) ==
    IF <<name>> = _get_service_name(s) /\ s._service = None
    THEN LET r == _retrieve_service(s, found)
             a == set_active(r.self, TRUE)
         IN Return(a.self, r.fx \o a.fx, None)
    ELSE Return(s, <<>>, None)

(* Faulty variant: the handler resolves the service but does not activate it. *)
_name_owner_changed_cb_silent(s, name, old, new, found) ==
    IF <<name>> = _get_service_name(s)
    THEN _retrieve_service(s, found)
    ELSE Return(s, <<>>, None)

_name_owner_changed_cb(s, name, old, new, found) ==
    IF <<name>> = _get_service_name(s)
    THEN LET r == _retrieve_service(s, found)
             a == set_active(r.self, TRUE)
         IN Return(a.self, r.fx \o a.fx, None)
    ELSE Return(s, <<>>, None)

SignalReceiver == <<"add_signal_receiver", "NameOwnerChanged", "org.freedesktop.DBus">>

(* Faulty variant: the constructor subscribes whatever the lookup gave. *)
__init__always_subscribes(activity_info, activity_id, window, now, found) ==
    LET s0 == [_window |-> None, _service |-> None,
               _activity_id |-> activity_id, _activity_info |-> activity_info,
               _launch_time |-> now, _launching |-> FALSE]
        w == IF window # None THEN set_window(s0, window) ELSE Return(s0, <<>>, None)
        r == _retrieve_service(w.self, found)
    IN Return(r.self, r.fx \o <<SignalReceiver>>, None)

__init__(activity_info, activity_id, window, now, found) ==
    LET s0 == [_window |-> None, _service |-> None,
               _activity_id |-> activity_id, _activity_info |-> activity_info,
               _launch_time |-> now, _launching |-> FALSE]
        w == IF window # None THEN set_window(s0, window) ELSE Return(s0, <<>>, None)
    IN IF w.exc # None
       THEN w
       ELSE LET r == _retrieve_service(w.self, found)
            IN IF ~TruthyObj(r.self._service)
               THEN Return(r.self, r.fx \o <<SignalReceiver>>, None)
               ELSE Return(r.self, r.fx, None)

do_set_property(s, pspec, value) ==
    IF pspec.name = "launching"
    THEN Return([s EXCEPT !._launching = value], <<>>, None)
    ELSE Return(s, <<>>, None)

(* Faulty variant: the scan does not stop at the first match. *)
RECURSIVE find_last_activity(_, _, _, _)
find_last_activity(acts, id, i, best) ==
    IF i > Len(acts) THEN best
    ELSE find_last_activity(acts, id, i + 1, IF id = acts[i].id THEN acts[i] ELSE best)

get_icon_color_last(s, acts, profile_color) ==
    LET activity == find_last_activity(acts, s._activity_id, 1, None)
    IN IF activity # None
       THEN Return(s, <<>>, XoColor(activity.color))
       ELSE Return(s, <<>>, profile_color)

(* The for loop of get_icon_color, from index i. *)
RECURSIVE find_activity(_, _, _)
find_activity(acts, id, i) ==
    IF i > Len(acts) THEN None
    ELSE IF id = acts[i].id THEN acts[i]
    ELSE find_activity(acts, id, i + 1)

(* acts: pservice.get_activities(); profile_color: profile.get_color(). *)
get_icon_color(s, acts, profile_color) ==
    LET activity == find_activity(acts, s._activity_id, 1)
    IN IF activity # None
       THEN Return(s, <<>>, XoColor(activity.color))
       ELSE Return(s, <<>>, profile_color)

equals(s, activity) ==
    IF TruthyStr(s._activity_id) /\ TruthyStr(get_activity_id(activity))
    THEN Return(s, <<>>, s._activity_id = get_activity_id(activity))
    ELSE IF s._window = None
    THEN Raise(s, <<>>, "AttributeError", "'NoneType' object has no attribute 'get_xid'")
    ELSE IF ~TruthyInt(s._window.xid)
    THEN Return(s, <<>>, FALSE)
    ELSE LET x == get_xid(activity)
         IN IF x.exc # None THEN Outcome(s, <<>>, x.exc, None)
            ELSE IF ~TruthyInt(x.val) THEN Return(s, <<>>, FALSE)
            ELSE Return(s, <<>>, s._window.xid = x.val)

----------------------------------------------------------------------------
(* The state machine. *)

NumCalls(calls, kind) == Cardinality({i \in DOMAIN calls : calls[i][1] = kind})

(* The state after a call with outcome out: the record's fields, the calls  *)
(* it made, the signal receivers it has registered on the bus, what the     *)
(* caller saw, and the record as it was when the call began.                *)
Apply(op, args, out, oldReceivers) ==
    /\ _window' = out.self._window
    /\ _service' = out.self._service
    /\ _activity_id' = out.self._activity_id
    /\ _activity_info' = out.self._activity_info
    /\ _launch_time' = out.self._launch_time
    /\ _launching' = out.self._launching
    /\ fx' = out.fx
    /\ receivers' = oldReceivers + NumCalls(out.fx, "add_signal_receiver")
    /\ ret' = [op |-> op, args |-> args, exc |-> out.exc, val |-> out.val]
    /\ before' = Self

(* A record as another part of the shell holds it: any constructed record. *)
OtherActivities ==
    {__init__(info, id, w, now, found).self :
        info \in ActivityInfos, id \in ActivityIds, w \in {None} \cup Windows,
        now \in {1000}, found \in BOOLEAN}

Init ==
    \E info \in ActivityInfos, id \in ActivityIds, w \in {None} \cup Windows,
       now \in Times, found \in BOOLEAN :
        LET out == __init__(info, id, w, now, found)
        IN /\ _window = out.self._window
           /\ _service = out.self._service
           /\ _activity_id = out.self._activity_id
           /\ _activity_info = out.self._activity_info
           /\ _launch_time = out.self._launch_time
           /\ _launching = out.self._launching
           /\ fx = out.fx
           /\ receivers = NumCalls(out.fx, "add_signal_receiver")
           /\ ret = [op |-> "__init__", args |-> <<info, id, w>>,
                     exc |-> out.exc, val |-> out.val]
           /\ before = None

SetWindow ==
    \E w \in {None} \cup Windows :
        Apply("set_window", <<w>>, set_window(Self, w), receivers)

SetActive ==
    \E state \in BOOLEAN :
        Apply("set_active", <<state>>, set_active(Self, state), receivers)

SetLaunching ==
    \E value \in BOOLEAN :
        Apply("do_set_property", <<"launching", value>>,
              do_set_property(Self, [name |-> "launching"], value), receivers)

(* The bus emits NameOwnerChanged(name, old, new); the handler runs if the  *)
(* record registered it.                                                    *)
NameOwnerChanged ==
    \E name \in BusNames, old \in BusOwners, new \in BusOwners, found \in BOOLEAN :
        /\ old # new
        /\ IF receivers > 0
           THEN Apply("NameOwnerChanged", <<name, old, new>>,
                      _name_owner_changed_cb(Self, name, old, new, found), receivers)
           ELSE Apply("NameOwnerChanged", <<name, old, new>>,
                      Return(Self, <<>>, None), receivers)

GetIconColor ==
    \E acts \in SeqsUpTo(PresenceActivities, MaxActs), c \in Colors :
        Apply("get_icon_color", <<acts, XoColor(c)>>,
              get_icon_color(Self, acts, XoColor(c)), receivers)

Equals ==
    \E activity \in OtherActivities :
        Apply("equals", <<activity>>, equals(Self, activity), receivers)

Next ==
    \/ SetWindow
    \/ SetActive
    \/ SetLaunching
    \/ NameOwnerChanged
    \/ GetIconColor
    \/ Equals

Spec == Init /\ [][Next]_vars

----------------------------------------------------------------------------
(* Properties. ret is the last call (the constructor in an initial state),  *)
(* before the record when that call began, fx the external calls it made.   *)

ValueError == [type |-> "ValueError", msg |-> "window must be valid"]
SetActiveTrue == <<"SetActive", TRUE>>
Lookups == NumCalls(fx, "get_object")
Subscriptions == NumCalls(fx, "add_signal_receiver")
RemoteCalls == NumCalls(fx, "SetActive")
LookupGave(what) == \E i \in DOMAIN fx : fx[i][1] = "get_object" /\ fx[i][4] = what

(* The well-known name derived from the record's activityId. *)
Matches(name) == _activity_id # "" /\ name = "org.laptop.Activity" \o _activity_id
Notified == ret.op = "NameOwnerChanged"
Handle == [bus_name |-> "org.laptop.Activity" \o _activity_id,
           object_path |-> "/org/laptop/Activity/" \o _activity_id,
           dbus_interface |-> "org.laptop.Activity"]

(* C1: constructing with an empty activityId and no window performs no      *)
(* lookup and registers no ownership-change subscription.                   *)
C1_NoLookupNoSubscription ==
    (ret.op = "__init__" /\ ret.args[2] = "" /\ ret.args[3] = None)
        => (Lookups = 0 /\ Subscriptions = 0 /\ receivers = 0)

(* C2 as stated: a matching notification arriving in NoService re-resolves  *)
(* the handle, makes the record Bound, clears the launching flag and        *)
(* issues set-active(true).                                                 *)
C2_BoundAndLaunchingCleared ==
    (Notified /\ Matches(ret.args[1]) /\ before._service = None)
        => /\ Lookups = 1
           /\ _service # None
           /\ _launching = FALSE
           /\ \E i \in DOMAIN fx : fx[i] = SetActiveTrue

(* C2 amended: a matching notification arriving in NoService re-resolves    *)
(* the handle with one lookup; if the lookup succeeds the record is Bound   *)
(* and set-active(true) is issued after it, if it fails the record stays in *)
(* NoService and nothing is issued; the launching flag keeps its value.     *)
C2_ResolveThenActivate ==
    (Notified /\ Matches(ret.args[1]) /\ before._service = None)
        => /\ ret.exc = None
           /\ Lookups = 1
           /\ _launching = before._launching
           /\ IF LookupGave("proxy")
              THEN _service = Handle /\ Len(fx) = 2 /\ fx[2] = SetActiveTrue
              ELSE _service = None /\ RemoteCalls = 0

C2_Witness ==
    /\ Notified /\ Matches(ret.args[1])
    /\ before._service = None /\ before._launching = TRUE
    /\ _service # None /\ _launching = TRUE /\ RemoteCalls = 1

(* C3: equals returns true for equal non-empty ids whatever the windows,    *)
(* true for empty ids and equal window identifiers, and the boolean false   *)
(* (not a failure) for differing ids with differing or absent windows.      *)
C3_EqualsIsTotal ==
    ret.op = "equals" =>
        LET a == before
            b == ret.args[1]
            sameXid == /\ a._window # None /\ b._window # None
                       /\ a._window.xid = b._window.xid
        IN /\ (a._activity_id # "" /\ a._activity_id = b._activity_id)
                => (ret.exc = None /\ ret.val = TRUE)
           /\ (a._activity_id = "" /\ b._activity_id = "" /\ sameXid)
                => (ret.exc = None /\ ret.val = TRUE)
           /\ (a._activity_id # b._activity_id /\ ~sameXid)
                => (ret.exc = None /\ ret.val = FALSE)

(* C4: setWindow with an absent window fails with ValueError                *)
(* (InvalidArgument) and leaves every field of the record as it was.        *)
C4_SetWindowNoneFails ==
    (ret.op = "set_window" /\ ret.args[1] = None)
        => (ret.exc = ValueError /\ Self = before)

C4_Witness ==
    /\ ret.op = "set_window" /\ ret.args[1] = None
    /\ ret.exc # None
    /\ before._window # None /\ _window # None

(* C5: once the window is non-absent it is non-absent in every later state. *)
C5_WindowNeverNullAgain == [][_window # None => _window' # None]_vars

C5_Witness ==
    /\ ret.op = "set_window" /\ ret.args[1] = None
    /\ before._window = [xid |-> 1] /\ _window = [xid |-> 1]
    /\ _service # None

(* C6: setActive without a service handle issues no remote call, does not   *)
(* fail and changes no field.                                               *)
C6_SetActiveWithoutService ==
    (ret.op = "set_active" /\ before._service = None)
        => (fx = <<>> /\ ret.exc = None /\ Self = before)

C6_Witness ==
    /\ ret.op = "set_active" /\ ret.args[1] = TRUE
    /\ before._service = None /\ _activity_id # ""
    /\ ret.exc = None

(* C7: construction with a non-empty activityId never fails; it performs    *)
(* one lookup; a failed lookup leaves the handle absent and registers       *)
(* exactly one subscription, a successful one binds the handle and          *)
(* registers none.                                                          *)
C7_SubscribedIffNoService ==
    (ret.op = "__init__" /\ _activity_id # "")
        => /\ ret.exc = None
           /\ Lookups = 1
           /\ IF LookupGave("DBusException")
              THEN _service = None /\ Subscriptions = 1 /\ receivers = 1
              ELSE _service = Handle /\ Subscriptions = 0 /\ receivers = 0
           /\ (receivers > 0) <=> (_service = None)

C7_Witness ==
    /\ ret.op = "__init__" /\ _activity_id # ""
    /\ LookupGave("DBusException")
    /\ _service = None /\ receivers = 1

(* C8: getIconColor returns the color of the first entry of the presence    *)
(* list whose id is the record's activityId, the profile color when there   *)
(* is none, and changes no field.                                           *)
C8_IconColorFirstMatch ==
    ret.op = "get_icon_color" =>
        LET acts == ret.args[1]
            hits == {i \in 1..Len(acts) : acts[i].id = _activity_id}
            first == CHOOSE i \in hits : \A j \in hits : i <= j
        IN /\ ret.exc = None
           /\ ret.val = IF hits = {} THEN ret.args[2]
                        ELSE [xocolor |-> acts[first].color]
           /\ Self = before

C8_Witness ==
    /\ ret.op = "get_icon_color"
    /\ Len(ret.args[1]) = 2
    /\ ret.args[1][1].id = _activity_id /\ ret.args[1][2].id = _activity_id
    /\ ret.args[1][1].color # ret.args[1][2].color
    /\ ret.val = [xocolor |-> ret.args[1][1].color]
    /\ ret.val # ret.args[2]

(* C9 as stated: for any record with a non-empty activityId, however its    *)
(* handle came about, every matching notification causes a new lookup and   *)
(* the handle is that lookup's result.                                      *)
C9_AlwaysReResolved ==
    (Notified /\ Matches(ret.args[1]))
        => /\ Lookups = 1
           /\ _service = IF LookupGave("proxy") THEN Handle ELSE None

(* C9 amended: for a record with a non-empty activityId whose lookup at     *)
(* construction failed (the only case in which it subscribes), every        *)
(* matching notification causes a new lookup and the handle is that         *)
(* lookup's result, whether the handle was absent or bound before.          *)
C9_ReResolvedWhenSubscribed ==
    (Notified /\ Matches(ret.args[1]) /\ receivers > 0)
        => /\ Lookups = 1
           /\ _service = IF LookupGave("proxy") THEN Handle ELSE None

C9_Witness ==
    /\ Notified /\ Matches(ret.args[1]) /\ receivers = 1
    /\ before._service # None
    /\ LookupGave("DBusException") /\ _service = None

(* C10: a notification whose name is not the derived name changes no field  *)
(* and causes no lookup and no remote call; a record with an empty          *)
(* activityId never has a service handle.                                   *)
C10_OtherNamesIgnored ==
    /\ (Notified /\ ~Matches(ret.args[1])) => (Self = before /\ fx = <<>>)
    /\ _activity_id = "" => _service = None

C10_Witness ==
    /\ Notified /\ receivers = 1
    /\ _activity_id = "" /\ ret.args[1] = "org.laptop.Activity"
    /\ _service = None /\ fx = <<>>

====
